---- MODULE Spec2Model ----
(***************************************************************************)
(* The XSD -> LAMMPS converter (class XSDtoLAMMPS of xsd_to_lammps.py) as  *)
(* a state machine: one conversion of one input file, driven the way       *)
(* convert_all_xsd.py drives it (parse_xsd, then write_lammps_data).       *)
(*                                                                         *)
(* Strings are sequences of one-character strings, so that int(), float(), *)
(* split(), strip(), sorted() and the mass heuristic are computed, not     *)
(* assumed.  An optional value (an attribute that may be absent, the       *)
(* result of find()) is None == <<>> or Some(v) == <<v>>.                  *)
(* Floating-point values are integers here: every numeric literal of the   *)
(* inputs is an integer-valued decimal literal, on which float() and       *)
(* FloatOf agree; masses are kept in thousandths.                          *)
(***************************************************************************)
EXTENDS Integers, Sequences, FiniteSets, TLC

\* ------------------------------------------------------------ bounds
\* The longest document (number of Atom3d and Bond elements under the root).
MaxElems == 4

\* ------------------------------------------------------------ optional values
None == <<>>
Some(v) == <<v>>
\* elem.get(name, default)
Get(attr, default) == IF attr = None THEN default ELSE attr[1]

\* ------------------------------------------------------------ characters and strings
\* The characters of the inputs, in code-point order.
Alphabet ==
  << " ", "+", ",", "-",
     "0", "1", "2", "3", "4", "5", "6", "7", "8", "9",
     "A", "B", "C", "D", "E", "F", "G", "H", "I", "J", "K", "L", "M",
     "N", "O", "P", "Q", "R", "S", "T", "U", "V", "W", "X", "Y", "Z",
     "a", "b", "c", "d", "e", "f", "g", "h", "i", "j", "k", "l", "m",
     "n", "o", "p", "q", "r", "s", "t", "u", "v", "w", "x", "y", "z" >>

CharCode(c) == CHOOSE i \in 1..Len(Alphabet) : Alphabet[i] = c
IsDigit(c) == CharCode(c) \in CharCode("0")..CharCode("9")
IsUpper(c) == CharCode(c) \in CharCode("A")..CharCode("Z")
IsLower(c) == CharCode(c) \in CharCode("a")..CharCode("z")
IsLetter(c) == IsUpper(c) \/ IsLower(c)
DigitVal(c) == CharCode(c) - CharCode("0")
\* str.upper() and str.lower() on one character
Upper(c) == IF IsLower(c) THEN Alphabet[CharCode(c) - CharCode("a") + CharCode("A")] ELSE c
Lower(c) == IF IsUpper(c) THEN Alphabet[CharCode(c) - CharCode("A") + CharCode("a")] ELSE c

\* s < t for Python strings (lexicographic by code point)
RECURSIVE StrLess(_, _)
StrLess(s, t) ==
  IF t = <<>> THEN FALSE
  ELSE IF s = <<>> THEN TRUE
  ELSE IF s[1] = t[1] THEN StrLess(Tail(s), Tail(t))
  ELSE CharCode(s[1]) < CharCode(t[1])

\* str.strip(): leading and trailing whitespace removed
RECURSIVE LStrip(_)
LStrip(s) == IF s # <<>> /\ s[1] = " " THEN LStrip(Tail(s)) ELSE s
RECURSIVE RStrip(_)
RStrip(s) ==
  IF s # <<>> /\ s[Len(s)] = " " THEN RStrip(SubSeq(s, 1, Len(s) - 1)) ELSE s
Strip(s) == RStrip(LStrip(s))

\* str.split(','): the fields between the separators; "" splits into [""]
RECURSIVE SplitAcc(_, _, _)
SplitAcc(s, sep, cur) ==
  IF s = <<>> THEN <<cur>>
  ELSE IF s[1] = sep THEN <<cur>> \o SplitAcc(Tail(s), sep, <<>>)
  ELSE SplitAcc(Tail(s), sep, Append(cur, s[1]))
Split(s, sep) == SplitAcc(s, sep, <<>>)

\* the value of a non-empty string of decimal digits
RECURSIVE DigitsVal(_, _)
DigitsVal(s, acc) ==
  IF s = <<>> THEN acc ELSE DigitsVal(Tail(s), 10 * acc + DigitVal(s[1]))
AllDigits(s) == s # <<>> /\ \A i \in 1..Len(s) : IsDigit(s[i])

\* A decimal literal: surrounding whitespace, an optional sign, digits.
\* [ok |-> FALSE] is Python's ValueError.
Literal(str) ==
  LET s    == Strip(str)
      sgn  == s # <<>> /\ s[1] \in {"+", "-"}
      body == IF sgn THEN Tail(s) ELSE s
  IN  IF AllDigits(body)
        THEN [ok |-> TRUE,
              v  |-> IF sgn /\ s[1] = "-" THEN 0 - DigitsVal(body, 0)
                                          ELSE DigitsVal(body, 0)]
        ELSE [ok |-> FALSE, v |-> 0]

\* int(s) of a string
IntOf(s) == Literal(s)
\* float(s) of a string (integer-valued literals only, see the header)
FloatOf(s) == Literal(s)

\* ------------------------------------------------------------ the document
\* An element of the tree.  ns: the tag is in the namespace
\* http://www.accelrys.com/xsd.  The document is the sequence of the
\* root's Atom3d and Bond descendants in document order.
Atom3d(ns, id, ff, charge, xyz, comp, kids) ==
  [tag |-> "Atom3d", ns |-> ns, ID |-> id, Name |-> None, ForcefieldType |-> ff,
   Charge |-> charge, XYZ |-> xyz, Components |-> comp, kids |-> kids]
Bond(ns, connects, type) ==
  [tag |-> "Bond", ns |-> ns, Connects |-> connects, Type |-> type]
\* A Components child of an atom: its text and the number of its own children.
ComponentsChild(ns, text, nchildren) ==
  [tag |-> "Components", ns |-> ns, text |-> text, nchildren |-> nchildren]

\* root.findall('.//tag') (ns = FALSE) and root.findall('.//{uri}tag') (ns = TRUE)
FindAll(doc, tag, ns) == SelectSeq(doc, LAMBDA e : e.tag = tag /\ e.ns = ns)

\* elem.find(): the first matching child, or None
FirstChild(kids, ns) ==
  LET hits == SelectSeq(kids, LAMBDA k : k.tag = "Components" /\ k.ns = ns)
  IN  IF hits = <<>> THEN None ELSE Some(hits[1])

\* bool(x) of the result of find(): None is false, and an Element is false
\* when it has no children.
Truthy(found) == found # None /\ found[1].nchildren > 0


\* ------------------------------------------------------------ string constants
S_X == <<"X">>
S_unknown == <<"u", "n", "k", "n", "o", "w", "n">>
S_Single == <<"S", "i", "n", "g", "l", "e">>
S_Double == <<"D", "o", "u", "b", "l", "e">>
S_000 == <<"0", ",", "0", ",", "0">>
S_empty == <<>>

\* ------------------------------------------------------------ state
VARIABLES
  file,                   \* the input: [wellformed, doc]
  pc,                     \* where the conversion stands
  atoms,                  \* self.atoms: dict dense index -> atom record
  bonds,                  \* self.bonds: list of bond records
  angles, dihedrals,      \* self.angles, self.dihedrals: never filled
  atom_types,             \* self.atom_types: dict type key -> int
  bond_types,             \* self.bond_types: dict (elem, elem, order) -> int
  angle_types, dihedral_types,
  atom_type_counter, bond_type_counter,
  angle_type_counter, dihedral_type_counter,
  box_bounds,             \* self.box_bounds
  xsd_id_to_lammps_idx,   \* self.xsd_id_to_lammps_idx: dict int(ID) -> dense index
  atoms_list,             \* parse_xsd's local: the Atom3d elements found
  idx,                    \* parse_xsd's loop: the index of the last atom taken
  bonds_list,             \* _extract_bonds_from_bond_elements' local
  bond_pos,               \* its loop: the position of the next Bond element
  bond_id,                \* its local bond_id
  processed_bonds,        \* its local processed_bonds
  stdout,                 \* the lines printed
  output                  \* the data file written: None or Some(sections)

unused == <<angles, dihedrals, angle_types, dihedral_types,
            angle_type_counter, dihedral_type_counter>>
model == <<atoms, bonds, atom_types, bond_types, atom_type_counter,
           bond_type_counter, box_bounds, xsd_id_to_lammps_idx>>
locals == <<atoms_list, idx, bonds_list, bond_pos, bond_id, processed_bonds>>
vars == <<file, pc, model, unused, locals, stdout, output>>

\* d[k] = v of a dict
DictSet(d, k, v) == [x \in (DOMAIN d) \cup {k} |-> IF x = k THEN v ELSE d[x]]

\* ------------------------------------------------------------ __init__
InitObject ==
  /\ pc = "init"
  /\ atoms = <<>>
  /\ bonds = <<>>
  /\ angles = <<>>
  /\ dihedrals = <<>>
  /\ atom_types = <<>>
  /\ bond_types = <<>>
  /\ angle_types = <<>>
  /\ dihedral_types = <<>>
  /\ atom_type_counter = 0
  /\ bond_type_counter = 0
  /\ angle_type_counter = 0
  /\ dihedral_type_counter = 0
  /\ box_bounds = [xlo |-> 0, xhi |-> 0, ylo |-> 0, yhi |-> 0, zlo |-> 0, zhi |-> 0]
  /\ xsd_id_to_lammps_idx = <<>>
  /\ atoms_list = <<>>
  /\ idx = 0
  /\ bonds_list = <<>>
  /\ bond_pos = 1
  /\ bond_id = 1
  /\ processed_bonds = {}
  /\ stdout = <<>>
  /\ output = None

\* ------------------------------------------------------------ parse_xsd: the atoms
\* ET.parse raises on a file that is not well-formed XML; the driver
\* catches the exception and the conversion of this file is over.
ParseXsdFail ==
  /\ pc = "init"
  /\ ~file.wellformed
  /\ pc' = "aborted"
  /\ UNCHANGED <<file, model, unused, locals, stdout, output>>

\* The Atom3d elements: without the namespace, and with it when there are none.
FindAtoms(doc) ==
  LET plain == FindAll(doc, "Atom3d", FALSE)
  IN  IF plain = <<>> THEN FindAll(doc, "Atom3d", TRUE) ELSE plain

ParseXsdBegin ==
  /\ pc = "init"
  /\ file.wellformed
  /\ atoms_list' = FindAtoms(file.doc)
  /\ stdout' = Append(stdout, [line |-> "Found atoms", n |-> Len(FindAtoms(file.doc))])
  /\ pc' = "atoms"
  /\ UNCHANGED <<file, model, unused, idx, bonds_list, bond_pos, bond_id,
                 processed_bonds, output>>

\* x, y, z = map(float, xyz_str.split(',')) under the bare except
ParseXYZ(xyz_str) ==
  LET parts == Split(xyz_str, ",")
      vals  == [i \in 1..Len(parts) |-> FloatOf(parts[i])]
  IN  IF Len(parts) = 3 /\ \A i \in 1..3 : vals[i].ok
        THEN <<vals[1].v, vals[2].v, vals[3].v>>
        ELSE <<0, 0, 0>>

\* The element symbol of an atom element.
ResolveElement(atom_elem) ==
  LET first == FirstChild(atom_elem.kids, FALSE)
      components_elem ==
        IF Truthy(first) THEN first ELSE FirstChild(atom_elem.kids, TRUE)
  IN  IF components_elem # None
        THEN IF components_elem[1].text # None /\ components_elem[1].text[1] # <<>>
               THEN components_elem[1].text[1]
               ELSE S_X
        ELSE Get(atom_elem.Components, S_X)

\* The key an atom's type is interned under.
TypeKey(forcefield_type, element) ==
  IF forcefield_type = S_unknown \/ forcefield_type = <<>>
    THEN element
    ELSE forcefield_type

\* The counter after a lookup of key, and the integer the key is given.
NextCounter(table, counter, key) ==
  IF key \in DOMAIN table THEN counter ELSE counter + 1
\* Mutant: the key is given the counter's value before the increment.
InternBeforeIncrement(table, counter, key) ==
  IF key \in DOMAIN table THEN table ELSE DictSet(table, key, counter)
Intern(table, counter, key) ==
  IF key \in DOMAIN table THEN table ELSE DictSet(table, key, counter + 1)

\* Mutant: the atom is stored under its source ID.
AtomKeyBySourceId(i, id_int) == id_int
\* The key self.atoms is written under for the idx-th atom found.
AtomKey(i, id_int) == i

\* Mutant: an ID already in the map keeps its first index.
RecordIndexFirstWins(map, id_int, i) ==
  IF id_int \in DOMAIN map THEN map ELSE DictSet(map, id_int, i)
\* self.xsd_id_to_lammps_idx[int(atom_id)] = idx
RecordIndex(map, id_int, i) == DictSet(map, id_int, i)

\* One iteration of the loop over atoms_list.  The map entry is written
\* before Charge is converted: an atom that raises there leaves it behind.
ExtractAtom ==
  /\ pc = "atoms"
  /\ idx < Len(atoms_list)
  /\ LET i == idx + 1
         atom_elem == atoms_list[i]
         id == IF atom_elem.ID = None THEN [ok |-> FALSE, v |-> 0]
               ELSE IntOf(atom_elem.ID[1])
         charge == IF atom_elem.Charge = None THEN [ok |-> TRUE, v |-> 0]
                   ELSE FloatOf(atom_elem.Charge[1])
         forcefield_type == Get(atom_elem.ForcefieldType, S_unknown)
         xyz == ParseXYZ(Get(atom_elem.XYZ, S_000))
         element == ResolveElement(atom_elem)
         type_key == TypeKey(forcefield_type, element)
         types == Intern(atom_types, atom_type_counter, type_key)
     IN  IF ~id.ok
           THEN /\ pc' = "aborted"
                /\ UNCHANGED <<model, idx>>
           ELSE IF ~charge.ok
             THEN /\ pc' = "aborted"
                  /\ xsd_id_to_lammps_idx' = RecordIndex(xsd_id_to_lammps_idx, id.v, i)
                  /\ UNCHANGED <<atoms, bonds, atom_types, bond_types,
                                 atom_type_counter, bond_type_counter, box_bounds, idx>>
             ELSE /\ pc' = "atoms"
                  /\ idx' = i
                  /\ xsd_id_to_lammps_idx' = RecordIndex(xsd_id_to_lammps_idx, id.v, i)
                  /\ atom_type_counter' = NextCounter(atom_types, atom_type_counter, type_key)
                  /\ atom_types' = types
                  /\ atoms' = DictSet(atoms, AtomKey(i, id.v),
                       [id |-> atom_elem.ID[1], name |-> atom_elem.Name,
                        element |-> element, forcefield_type |-> forcefield_type,
                        charge |-> charge.v,
                        x |-> xyz[1], y |-> xyz[2], z |-> xyz[3],
                        atom_type |-> types[type_key], type_key |-> type_key])
                  /\ UNCHANGED <<bonds, bond_types, bond_type_counter, box_bounds>>
  /\ UNCHANGED <<file, unused, atoms_list, bonds_list, bond_pos, bond_id,
                 processed_bonds, stdout, output>>


\* ------------------------------------------------------------ the bonds
\* The Bond elements: without the namespace, and with it when there are none.
FindBonds(doc) ==
  LET plain == FindAll(doc, "Bond", FALSE)
  IN  IF plain = <<>> THEN FindAll(doc, "Bond", TRUE) ELSE plain

ExtractBondsBegin ==
  /\ pc = "atoms"
  /\ idx = Len(atoms_list)
  /\ bonds_list' = FindBonds(file.doc)
  /\ bond_pos' = 1
  /\ bond_id' = 1
  /\ processed_bonds' = {}
  /\ stdout' = Append(stdout, [line |-> "Found bonds", n |-> Len(FindBonds(file.doc))])
  /\ pc' = "bonds"
  /\ UNCHANGED <<file, model, unused, atoms_list, idx, output>>

\* [int(p.strip()) for p in connects.split(',')]: the values, or None when
\* some field is no integer (ValueError).
ParseConnects(connects) ==
  LET fields == Split(connects, ",")
      ints   == [i \in 1..Len(fields) |-> IntOf(Strip(fields[i]))]
  IN  IF \A i \in 1..Len(fields) : ints[i].ok
        THEN Some([i \in 1..Len(fields) |-> ints[i].v])
        ELSE None

\* self.xsd_id_to_lammps_idx.get(xsd_id)
DenseIndex(map, xsd_id) ==
  IF xsd_id \in DOMAIN map THEN Some(map[xsd_id]) ELSE None

\* Mutant: the endpoints are kept in the order of the Connects value.
BondTupleUnsorted(a1, a2) == <<a1, a2>>
\* tuple(sorted([atom1_idx, atom2_idx]))
BondTuple(a1, a2) == IF a1 <= a2 THEN <<a1, a2>> ELSE <<a2, a1>>

\* tuple(sorted([elem1, elem2])) + (bond_order,)
BondTypeKey(elem1, elem2, bond_order) ==
  IF StrLess(elem2, elem1) THEN <<elem2, elem1, bond_order>>
                           ELSE <<elem1, elem2, bond_order>>

\* Mutant: the pair is never remembered.
AddProcessedForgotten(processed, bond_tuple) == processed
\* processed_bonds.add(bond_tuple)
AddProcessed(processed, bond_tuple) == processed \cup {bond_tuple}

\* Mutant: bond_id moves past every Bond element.
BondIdAfterAlways(id, accepted) == id + 1
\* bond_id after an element: it moves only past an accepted bond.
BondIdAfter(id, accepted) == IF accepted THEN id + 1 ELSE id

\* What the loop body does with one Bond element:
\*   "empty":    no Connects, or an empty one: passed over
\*   "unparsed": some field is no integer: a warning
\*   "arity":    not two fields: passed over
\*   "unknown":  an ID the map does not hold: a warning
\*   "seen":     the pair is in processed_bonds: passed over
\*   "accept":   a new bond
BondOutcome(bond_elem, map, processed) ==
  LET connects == Get(bond_elem.Connects, S_empty)
      parts    == ParseConnects(connects)
  IN  IF connects = <<>> THEN "empty"
      ELSE IF parts = None THEN "unparsed"
      ELSE IF Len(parts[1]) # 2 THEN "arity"
      ELSE IF DenseIndex(map, parts[1][1]) = None \/ DenseIndex(map, parts[1][2]) = None
        THEN "unknown"
      ELSE IF BondTuple(DenseIndex(map, parts[1][1])[1],
                        DenseIndex(map, parts[1][2])[1]) \in processed
        THEN "seen"
      ELSE "accept"

\* One iteration of the loop over bonds_list.
ProcessBond ==
  /\ pc = "bonds"
  /\ bond_pos <= Len(bonds_list)
  /\ LET bond_elem  == bonds_list[bond_pos]
         connects   == Get(bond_elem.Connects, S_empty)
         bond_order == Get(bond_elem.Type, S_Single)
         outcome    == BondOutcome(bond_elem, xsd_id_to_lammps_idx, processed_bonds)
     IN  /\ bond_id' = BondIdAfter(bond_id, outcome = "accept")
         /\ CASE outcome = "unparsed" ->
                   /\ stdout' = Append(stdout,
                        [line |-> "Warning: Could not parse bond", connects |-> connects])
                   /\ UNCHANGED <<model, processed_bonds>>
              [] outcome = "unknown" ->
                   /\ stdout' = Append(stdout,
                        [line |-> "Warning: Bond references unknown atom IDs",
                         ids |-> ParseConnects(connects)[1]])
                   /\ UNCHANGED <<model, processed_bonds>>
              [] outcome = "accept" ->
                   LET parts == ParseConnects(connects)[1]
                       atom1_idx == DenseIndex(xsd_id_to_lammps_idx, parts[1])[1]
                       atom2_idx == DenseIndex(xsd_id_to_lammps_idx, parts[2])[1]
                       bond_tuple == BondTuple(atom1_idx, atom2_idx)
                       bond_type_key == BondTypeKey(atoms[atom1_idx].element,
                                                    atoms[atom2_idx].element, bond_order)
                       types == Intern(bond_types, bond_type_counter, bond_type_key)
                   IN  /\ processed_bonds' = AddProcessed(processed_bonds, bond_tuple)
                       /\ bond_type_counter' =
                            NextCounter(bond_types, bond_type_counter, bond_type_key)
                       /\ bond_types' = types
                       /\ bonds' = Append(bonds,
                            [id |-> bond_id, type |-> types[bond_type_key],
                             atom1 |-> bond_tuple[1], atom2 |-> bond_tuple[2],
                             order |-> bond_order, elements |-> bond_type_key])
                       /\ UNCHANGED <<atoms, atom_types, atom_type_counter, box_bounds,
                                      xsd_id_to_lammps_idx, stdout>>
              [] OTHER ->
                   UNCHANGED <<model, processed_bonds, stdout>>
  /\ bond_pos' = bond_pos + 1
  /\ UNCHANGED <<file, pc, unused, atoms_list, idx, bonds_list, output>>

\* The keys of a dict in the order of their values:
\* sorted(d.items(), key=lambda x: x[1])
RECURSIVE KeysByValue(_, _)
KeysByValue(table, keys) ==
  IF keys = {} THEN <<>>
  ELSE LET k == CHOOSE k \in keys : \A j \in keys : table[k] <= table[j]
       IN  <<k>> \o KeysByValue(table, keys \ {k})

\* After the loop: the bond type summary is printed.
ExtractBondsEnd ==
  /\ pc = "bonds"
  /\ bond_pos > Len(bonds_list)
  /\ stdout' = IF DOMAIN bond_types = {} THEN stdout
               ELSE stdout \o <<[line |-> "Bond types found"]>>
                      \o [k \in 1..Cardinality(DOMAIN bond_types) |->
                           [line |-> "Type",
                            n |-> bond_types[KeysByValue(bond_types, DOMAIN bond_types)[k]],
                            key |-> KeysByValue(bond_types, DOMAIN bond_types)[k]]]
  /\ pc' = "box"
  /\ UNCHANGED <<file, model, unused, locals, output>>

\* ------------------------------------------------------------ the box
padding == 10

SetMin(S) == CHOOSE m \in S : \A x \in S : m <= x
SetMax(S) == CHOOSE m \in S : \A x \in S : x <= m

\* Mutant: the padding is added to the low bound.
BoxLoPaddedInward(coords) == SetMin(coords) + padding
\* The low and high bound of an axis over the coordinates of all atoms.
BoxLo(coords) == SetMin(coords) - padding
BoxHi(coords) == SetMax(coords) + padding

\* _calculate_box_bounds, and parse_xsd returns.
CalculateBoxBounds ==
  /\ pc = "box"
  /\ box_bounds' =
       IF DOMAIN atoms = {} THEN box_bounds
       ELSE LET x_coords == {atoms[k].x : k \in DOMAIN atoms}
                y_coords == {atoms[k].y : k \in DOMAIN atoms}
                z_coords == {atoms[k].z : k \in DOMAIN atoms}
            IN  [xlo |-> BoxLo(x_coords), xhi |-> BoxHi(x_coords),
                 ylo |-> BoxLo(y_coords), yhi |-> BoxHi(y_coords),
                 zlo |-> BoxLo(z_coords), zhi |-> BoxHi(z_coords)]
  /\ pc' = "parsed"
  /\ UNCHANGED <<file, atoms, bonds, atom_types, bond_types, atom_type_counter,
                 bond_type_counter, xsd_id_to_lammps_idx, unused, locals, stdout, output>>


\* ------------------------------------------------------------ write_lammps_data
\* atomic_masses, in thousandths
atomic_masses ==
  { << <<"H">>, 1008 >>,      << <<"C">>, 12011 >>,      << <<"N">>, 14007 >>,
    << <<"O">>, 15999 >>,     << <<"S">>, 32065 >>,      << <<"P">>, 30974 >>,
    << <<"C", "l">>, 35450 >>, << <<"F">>, 18998 >>,     << <<"B", "r">>, 79904 >>,
    << <<"I">>, 126904 >>,    << <<"N", "a">>, 22990 >>, << <<"K">>, 39098 >>,
    << <<"C", "a">>, 40078 >>, << <<"M", "g">>, 24305 >>, << <<"A", "l">>, 26982 >>,
    << <<"S", "i">>, 28085 >> }
MassKeys == {p[1] : p \in atomic_masses}
default_mass == 12000

\* str.capitalize(): the first character upper case, the rest lower case
Capitalize(s) ==
  [i \in 1..Len(s) |-> IF i = 1 THEN Upper(s[i]) ELSE Lower(s[i])]

\* The mass written for an atom type key.
MassOf(ff_type) ==
  LET letters  == SelectSeq(ff_type, IsLetter)
      element  == IF letters = <<>> THEN S_X ELSE letters
      first    == IF Len(element) = 1 THEN <<Upper(element[1])>>
                  ELSE Capitalize(SubSeq(element, 1, 2))
      elem_key == IF first \notin MassKeys THEN <<Upper(element[1])>> ELSE first
  IN  IF elem_key \in MassKeys
        THEN (CHOOSE p \in atomic_masses : p[1] = elem_key)[2]
        ELSE default_mass

\* sorted() of a set of integers
RECURSIVE SortedInts(_)
SortedInts(S) ==
  IF S = {} THEN <<>> ELSE <<SetMin(S)>> \o SortedInts(S \ {SetMin(S)})

\* The rows of the Atoms section.
AtomRows(atms) ==
  LET keys == SortedInts(DOMAIN atms)
  IN  [k \in 1..Len(keys) |->
         <<keys[k], 1, atms[keys[k]].atom_type, atms[keys[k]].charge,
           atms[keys[k]].x, atms[keys[k]].y, atms[keys[k]].z>>]

\* The rows of the Bonds section, in list order.
BondRows(bnds) ==
  [k \in 1..Len(bnds) |-> <<bnds[k].id, bnds[k].type, bnds[k].atom1, bnds[k].atom2>>]

\* The file, section by section.  Numbers are kept as values: their
\* fixed-point rendering is not modelled.
WriteLammpsData ==
  /\ pc = "parsed"
  /\ output' = Some(
       [header |-> "LAMMPS data file - converted from XSD",
        counts |-> [atoms |-> Cardinality(DOMAIN atoms), bonds |-> Len(bonds),
                    angles |-> Len(angles), dihedrals |-> Len(dihedrals),
                    impropers |-> 0],
        types |-> [atom |-> Cardinality(DOMAIN atom_types),
                   bond |-> Cardinality(DOMAIN bond_types),
                   angle |-> Cardinality(DOMAIN angle_types),
                   dihedral |-> Cardinality(DOMAIN dihedral_types)],
        box |-> << <<box_bounds.xlo, box_bounds.xhi>>,
                   <<box_bounds.ylo, box_bounds.yhi>>,
                   <<box_bounds.zlo, box_bounds.zhi>> >>,
        Masses |-> LET keys == KeysByValue(atom_types, DOMAIN atom_types)
                   IN  [k \in 1..Len(keys) |->
                          <<atom_types[keys[k]], MassOf(keys[k]), keys[k]>>],
        BondTypesReference |->
          IF DOMAIN bond_types = {} THEN None
          ELSE Some(LET keys == KeysByValue(bond_types, DOMAIN bond_types)
                    IN  [k \in 1..Len(keys) |-> <<bond_types[keys[k]], keys[k]>>]),
        Atoms |-> AtomRows(atoms),
        Bonds |-> IF bonds = <<>> THEN None ELSE Some(BondRows(bonds))])
  /\ stdout' = Append(stdout, [line |-> "LAMMPS data file written"])
  /\ pc' = "written"
  /\ UNCHANGED <<file, model, unused, locals>>

\* ------------------------------------------------------------ the conversion
Next ==
  \/ ParseXsdFail
  \/ ParseXsdBegin
  \/ ExtractAtom
  \/ ExtractBondsBegin
  \/ ProcessBond
  \/ ExtractBondsEnd
  \/ CalculateBoxBounds
  \/ WriteLammpsData

\* The documents of at most n elements over a set of elements.
Docs(elems, n) == UNION {[1..k -> elems] : k \in 0..n}

\* The input files: a file that is not XML, or a document.
Files(elems, n) ==
  {[wellformed |-> FALSE, doc |-> <<>>]} \cup
  {[wellformed |-> TRUE, doc |-> d] : d \in Docs(elems, n)}


\* ------------------------------------------------------------ inputs
\* Attribute values of the input documents.
S_5 == <<"5">>
S_05 == <<"0", "5">>
S_7 == <<"7">>
S_9 == <<"9">>
S_x == <<"x">>
S_C == <<"C">>
S_H == <<"H">>
S_N == <<"N">>
S_c3 == <<"c", "3">>
S_abc == <<"a", "b", "c">>
S_m1 == <<"-", "1">>
S_123 == <<"1", ",", "2", ",", "3">>
S_m407 == <<"-", "4", ",", "0", ",", "7">>
S_12 == <<"1", ",", "2">>
S_baddata == <<"b", "a", "d", ",", "d", "a", "t", "a">>
S_5c9 == <<"5", ",", "9">>
S_9c5 == <<"9", ",", " ", "5">>
S_5c7 == <<"5", ",", "7">>
S_5c5 == <<"5", ",", "5">>
S_5cx == <<"5", ",", "x">>
S_5c9c5 == <<"5", ",", "9", ",", "5">>

\* Documents about identifiers: sparse, repeated and unordered source IDs,
\* two spellings of one ID, atoms in and out of the namespace, bonds before
\* and after the atoms they name.
RemapElems ==
  { Atom3d(FALSE, Some(S_5), None, None, Some(S_123), Some(S_C), <<>>),
    Atom3d(FALSE, Some(S_9), None, None, None, Some(S_H), <<>>),
    Atom3d(FALSE, Some(S_05), None, None, None, Some(S_N), <<>>),
    Atom3d(TRUE,  Some(S_9), None, None, None, Some(S_H), <<>>),
    Bond(FALSE, Some(S_5c9), None),
    Bond(FALSE, Some(S_9c5), Some(S_Double)),
    Bond(FALSE, Some(S_5c7), None) }

\* Documents about bonds: the same pair twice, in either order and under
\* two labels, and the Connects values the loop passes over.
BondElems ==
  { Atom3d(FALSE, Some(S_5), None, None, Some(S_123), Some(S_C), <<>>),
    Atom3d(FALSE, Some(S_9), None, None, None, Some(S_H), <<>>),
    Bond(FALSE, Some(S_5c9), None),
    Bond(FALSE, Some(S_9c5), Some(S_Double)),
    Bond(FALSE, Some(S_5c7), None),
    Bond(FALSE, Some(S_5cx), None),
    Bond(FALSE, Some(S_5c9c5), None) }

\* Documents about types: force-field labels present, absent and empty,
\* bonds of equal and of different element pairs and orders.
TypeElems ==
  { Atom3d(FALSE, Some(S_5), None, None, None, Some(S_C), <<>>),
    Atom3d(FALSE, Some(S_9), Some(S_empty), None, None, Some(S_H), <<>>),
    Atom3d(FALSE, Some(S_7), Some(S_c3), None, None, Some(S_C), <<>>),
    Bond(FALSE, Some(S_5c5), None),
    Bond(FALSE, Some(S_5c9), None),
    Bond(FALSE, Some(S_9c5), Some(S_Double)),
    Bond(FALSE, Some(S_5c7), None) }

\* Documents about attribute values: coordinates, charges, IDs and Connects
\* values that are well-formed, malformed and absent.
ValueElems ==
  { Atom3d(FALSE, Some(S_5), None, None, Some(S_123), Some(S_C), <<>>),
    Atom3d(FALSE, Some(S_9), None, Some(S_m1), Some(S_m407), Some(S_H), <<>>),
    Atom3d(FALSE, Some(S_7), None, None, Some(S_baddata), None, <<>>),
    Atom3d(FALSE, Some(S_9), None, None, Some(S_12), Some(S_H), <<>>),
    Atom3d(FALSE, None, None, None, Some(S_123), Some(S_C), <<>>),
    Atom3d(FALSE, Some(S_x), None, None, Some(S_123), Some(S_C), <<>>),
    Atom3d(FALSE, Some(S_5), None, Some(S_abc), Some(S_123), Some(S_C), <<>>),
    Bond(TRUE, Some(S_5c5), None),
    Bond(FALSE, None, None) }

\* Documents about the element symbol: a Components child with and without
\* the namespace, with and without text and children, and the attribute.
ComponentElems ==
  { Atom3d(FALSE, Some(S_5), None, None, None, None, <<>>),
    Atom3d(FALSE, Some(S_5), None, None, None, Some(S_N), <<>>),
    Atom3d(FALSE, Some(S_5), None, None, None, Some(S_N),
           <<ComponentsChild(FALSE, Some(S_C), 0)>>),
    Atom3d(FALSE, Some(S_5), None, None, None, Some(S_N),
           <<ComponentsChild(FALSE, Some(S_C), 1)>>),
    Atom3d(TRUE, Some(S_5), None, None, None, Some(S_N),
           <<ComponentsChild(TRUE, Some(S_C), 0)>>),
    Atom3d(TRUE, Some(S_5), None, None, None, Some(S_N),
           <<ComponentsChild(TRUE, None, 0)>>),
    Atom3d(TRUE, Some(S_5), None, None, None, None,
           <<ComponentsChild(TRUE, Some(S_H), 0)>>),
    Bond(FALSE, Some(S_5c5), None) }

InitRemap == InitObject /\ file \in Files(RemapElems, MaxElems)
SpecRemap == InitRemap /\ [][Next]_vars

InitBonds == InitObject /\ file \in Files(BondElems, MaxElems)
SpecBonds == InitBonds /\ [][Next]_vars

InitTypes == InitObject /\ file \in Files(TypeElems, MaxElems)
SpecTypes == InitTypes /\ [][Next]_vars

InitValues == InitObject /\ file \in Files(ValueElems, MaxElems)
SpecValues == InitValues /\ [][Next]_vars

InitComponents == InitObject /\ file \in Files(ComponentElems, MaxElems)
SpecComponents == InitComponents /\ [][Next]_vars


\* ------------------------------------------------------------ claims
\* The atom pass is over and no exception was raised.
AtomPassDone == pc \in {"bonds", "box", "parsed", "written"}
\* parse_xsd has returned.
ParseDone == pc \in {"parsed", "written"}
\* The integer a source ID string stands for.
IdValue(id) == IntOf(id).v
\* The Bond elements the loop has gone through.
BondsTaken == SubSeq(bonds_list, 1, bond_pos - 1)

\* Every Atom3d element of the document, in or out of the namespace.
C1_AllAtom3d == SelectSeq(file.doc, LAMBDA e : e.tag = "Atom3d")
\* The Atom3d elements the search finds: those outside the namespace when
\* there is one, otherwise the namespaced ones.
C1_FoundAtom3d ==
  LET plain == \E i \in 1..Len(file.doc) :
                 file.doc[i].tag = "Atom3d" /\ ~file.doc[i].ns
  IN  SelectSeq(file.doc, LAMBDA e : e.tag = "Atom3d" /\ (e.ns <=> ~plain))
\* The atoms model holds exactly the elements of `elems`, in their order,
\* under the keys 1..N, and the Atoms section has one row per key, ascending.
C1_DenseOver(elems) ==
  /\ DOMAIN atoms = 1..Len(elems)
  /\ \A i \in 1..Len(elems) : atoms[i].id = elems[i].ID[1]
  /\ pc = "written" =>
       /\ Len(output[1].Atoms) = Len(elems)
       /\ \A k \in 1..Len(elems) : output[1].Atoms[k][1] = k

\* C1, as stated: after parse_xsd completes on a document with N Atom3d
\* elements the keys of the atoms model are exactly 1..N, assigned in
\* document order whatever the source IDs, and write_lammps_data emits
\* N Atoms rows in ascending index order.
C1_Original == ParseDone => C1_DenseOver(C1_AllAtom3d)

\* C1, amended: the same with N the number of Atom3d elements the search
\* finds (the elements outside the namespace when the document has any,
\* otherwise the namespaced ones), in their document order.
C1_DenseIndices == ParseDone => C1_DenseOver(C1_FoundAtom3d)

\* Three atoms whose source IDs are out of order and repeated, written.
C1_Witness ==
  /\ pc = "written"
  /\ DOMAIN atoms = 1..3
  /\ atoms[1].id = S_9 /\ atoms[2].id = S_5 /\ atoms[3].id = S_05
  /\ Len(output[1].Atoms) = 3

\* C2, as stated: after the atom pass the source-ID map is a bijection
\* between the atoms' source IDs and 1..N: every atom's dense index is the
\* image of its own source ID and no two atoms share a map entry.
C2_Original ==
  AtomPassDone =>
    /\ \A i \in DOMAIN atoms :
         /\ IdValue(atoms[i].id) \in DOMAIN xsd_id_to_lammps_idx
         /\ xsd_id_to_lammps_idx[IdValue(atoms[i].id)] = i
    /\ \A i, j \in DOMAIN atoms :
         i # j => IdValue(atoms[i].id) # IdValue(atoms[j].id)

\* C2, amended: after the atom pass the map's keys are exactly the integer
\* values of the atoms' source IDs, and each maps to the dense index of the
\* last atom that carries it; the map is a bijection onto 1..N exactly when
\* the integer values of the source IDs are pairwise distinct.
C2_LastWins ==
  AtomPassDone =>
    LET ids == {IdValue(atoms[i].id) : i \in DOMAIN atoms}
        distinct == \A i, j \in DOMAIN atoms :
                      i # j => IdValue(atoms[i].id) # IdValue(atoms[j].id)
        image == {xsd_id_to_lammps_idx[v] : v \in DOMAIN xsd_id_to_lammps_idx}
    IN  /\ DOMAIN xsd_id_to_lammps_idx = ids
        /\ \A v \in ids :
             /\ xsd_id_to_lammps_idx[v] \in DOMAIN atoms
             /\ IdValue(atoms[xsd_id_to_lammps_idx[v]].id) = v
             /\ \A i \in DOMAIN atoms :
                  IdValue(atoms[i].id) = v => i <= xsd_id_to_lammps_idx[v]
        /\ distinct <=> image = DOMAIN atoms

\* Source IDs "5", "9", "05": the first and third atoms share the key 5.
C2_Witness ==
  /\ AtomPassDone
  /\ DOMAIN atoms = 1..3
  /\ atoms[1].id = S_5 /\ atoms[2].id = S_9 /\ atoms[3].id = S_05
  /\ xsd_id_to_lammps_idx[5] = 3 /\ xsd_id_to_lammps_idx[9] = 2

\* The two source IDs of a Connects value, when it has that form.
C5_Ids(bond_elem) ==
  LET parts == ParseConnects(Get(bond_elem.Connects, S_empty))
  IN  IF parts # None /\ Len(parts[1]) = 2 THEN parts ELSE None
\* The integer values of the source IDs of the atoms found.
C5_AtomIds == {IdValue(atoms_list[i].ID[1]) : i \in 1..Len(atoms_list)}

\* C5: every accepted bond stores the dense indices the map gives the two
\* IDs of its Connects value, smaller first, both indices of existing
\* atoms; the map holds every atom of the document before the first Bond
\* element is taken, so a Bond element is accepted wherever it sits
\* relative to the atoms it names.
C5_Endpoints ==
  /\ pc = "bonds" => C5_AtomIds \subseteq DOMAIN xsd_id_to_lammps_idx
  /\ \A k \in 1..Len(bonds) :
       /\ bonds[k].atom1 <= bonds[k].atom2
       /\ {bonds[k].atom1, bonds[k].atom2} \subseteq DOMAIN atoms
       /\ DOMAIN atoms = 1..Len(atoms_list)
       /\ \E p \in 1..Len(BondsTaken) :
            /\ C5_Ids(BondsTaken[p]) # None
            /\ LET ids == C5_Ids(BondsTaken[p])[1]
               IN  /\ {ids[1], ids[2]} \subseteq DOMAIN xsd_id_to_lammps_idx
                   /\ {bonds[k].atom1, bonds[k].atom2} =
                        {xsd_id_to_lammps_idx[ids[1]], xsd_id_to_lammps_idx[ids[2]]}
  /\ pc \in {"bonds", "box", "parsed", "written"} =>
       \A p \in 1..Len(BondsTaken) :
         (/\ C5_Ids(BondsTaken[p]) # None
          /\ {C5_Ids(BondsTaken[p])[1][1], C5_Ids(BondsTaken[p])[1][2]}
               \subseteq C5_AtomIds)
         => \E k \in 1..Len(bonds) :
              {bonds[k].atom1, bonds[k].atom2} =
                {xsd_id_to_lammps_idx[C5_Ids(BondsTaken[p])[1][1]],
                 xsd_id_to_lammps_idx[C5_Ids(BondsTaken[p])[1][2]]}

\* The Bond element "5,9" comes first in the document, before the atoms 9
\* and 5 it names (in that order): it is accepted as the bond (1, 2).
C5_Witness ==
  /\ pc = "written"
  /\ Len(file.doc) = 3
  /\ file.doc[1].tag = "Bond" /\ file.doc[1].Connects = Some(S_5c9)
  /\ DOMAIN xsd_id_to_lammps_idx = {5, 9}
  /\ xsd_id_to_lammps_idx[5] = 2 /\ xsd_id_to_lammps_idx[9] = 1
  /\ Len(bonds) = 1 /\ bonds[1].atom1 = 1 /\ bonds[1].atom2 = 2


\* The first position of key in a sequence of keys.
C3_First(keys, key) ==
  CHOOSE i \in 1..Len(keys) :
    keys[i] = key /\ \A j \in 1..(i - 1) : keys[j] # key
\* A table holds exactly the keys looked up so far, numbered 1..K in the
\* order in which they were first looked up, and the counter stands at K.
C3_Interned(table, counter, keys) ==
  LET K == Cardinality(DOMAIN table)
  IN  /\ DOMAIN table = {keys[i] : i \in 1..Len(keys)}
      /\ {table[k] : k \in DOMAIN table} = 1..K
      /\ counter = K
      /\ \A k1, k2 \in DOMAIN table :
           C3_First(keys, k1) < C3_First(keys, k2) => table[k1] < table[k2]
\* The type keys of the atoms recorded and of the bonds accepted, in order.
C3_AtomKeys == [i \in 1..idx |-> atoms[i].type_key]
C3_BondKeys == [k \in 1..Len(bonds) |-> bonds[k].elements]
C3_State ==
  pc # "aborted" =>
    /\ DOMAIN atoms = 1..idx
    /\ C3_Interned(atom_types, atom_type_counter, C3_AtomKeys)
    /\ C3_Interned(bond_types, bond_type_counter, C3_BondKeys)
    /\ \A i \in 1..idx :
         /\ atoms[i].type_key =
              (IF atoms[i].forcefield_type \in {S_unknown, S_empty}
                 THEN atoms[i].element ELSE atoms[i].forcefield_type)
         /\ atoms[i].atom_type = atom_types[atoms[i].type_key]
    /\ \A k \in 1..Len(bonds) : bonds[k].type = bond_types[bonds[k].elements]
\* A key keeps the integer it has.
C3_Step ==
  /\ \A k \in DOMAIN atom_types :
       k \in DOMAIN atom_types' /\ atom_types'[k] = atom_types[k]
  /\ \A k \in DOMAIN bond_types :
       k \in DOMAIN bond_types' /\ bond_types'[k] = bond_types[k]

\* C3: at every point of a run each of atom_types and bond_types maps the
\* distinct keys seen so far one-to-one onto 1..K, a key first seen
\* earlier has the smaller integer, every atom and bond carries the
\* integer of its key, and no step changes the integer of a key.
C3_FirstSeenOrder == [](C3_State) /\ [][C3_Step]_vars

\* Two atom types in first-seen order ("C" then "c3") and two accepted
\* bonds that share the one bond type (C, C, Single).
C3_Witness ==
  /\ pc = "written"
  /\ DOMAIN atom_types = {S_C, S_c3}
  /\ atom_types[S_C] = 1 /\ atom_types[S_c3] = 2
  /\ Len(bonds) = 2
  /\ DOMAIN bond_types = {<<S_C, S_C, S_Single>>}
  /\ bonds[1].type = 1 /\ bonds[2].type = 1

\* The unordered pair of dense indices a Bond element connects, when its
\* Connects value names two source IDs the map holds.
C4_Pair(bond_elem) ==
  LET ids == C5_Ids(bond_elem)
  IN  IF ids # None /\ {ids[1][1], ids[1][2]} \subseteq DOMAIN xsd_id_to_lammps_idx
        THEN Some({xsd_id_to_lammps_idx[ids[1][1]], xsd_id_to_lammps_idx[ids[1][2]]})
        ELSE None
C4_BondPair(b) == {b.atom1, b.atom2}

\* C4: no two bonds of the model connect the same unordered pair of dense
\* indices; for every Bond element taken that connects two atoms there is
\* exactly one bond of that pair, it carries the order label of the first
\* such element, and the Bonds section has exactly one row for it.
C4_OneBondPerPair ==
  pc \in {"bonds", "box", "parsed", "written"} =>
    /\ \A j, k \in 1..Len(bonds) :
         j # k => C4_BondPair(bonds[j]) # C4_BondPair(bonds[k])
    /\ \A p \in 1..Len(BondsTaken) :
         C4_Pair(BondsTaken[p]) # None =>
           LET first == CHOOSE q \in 1..p :
                          /\ C4_Pair(BondsTaken[q]) = C4_Pair(BondsTaken[p])
                          /\ \A r \in 1..(q - 1) :
                               C4_Pair(BondsTaken[r]) # C4_Pair(BondsTaken[p])
               hits == {k \in 1..Len(bonds) :
                          C4_BondPair(bonds[k]) = C4_Pair(BondsTaken[p])[1]}
           IN  /\ Cardinality(hits) = 1
               /\ \A k \in hits :
                    bonds[k].order = Get(BondsTaken[first].Type, S_Single)
               /\ pc = "written" =>
                    /\ output[1].Bonds # None
                    /\ Cardinality({k \in 1..Len(output[1].Bonds[1]) :
                         {output[1].Bonds[1][k][3], output[1].Bonds[1][k][4]}
                           = C4_Pair(BondsTaken[p])[1]}) = 1

\* "9, 5" (Double) and then "5,9" (Single) between the same two atoms:
\* one bond, the first, is recorded and written.
C4_Witness ==
  /\ pc = "written"
  /\ Len(bonds_list) = 2
  /\ bonds_list[1].Connects = Some(S_9c5) /\ bonds_list[2].Connects = Some(S_5c9)
  /\ DOMAIN atoms = 1..2
  /\ Len(bonds) = 1 /\ bonds[1].order = S_Double
  /\ Len(output[1].Bonds[1]) = 1

\* The Bond elements taken that the claim calls dropped or duplicate:
\* every one that is not the first to connect its pair of atoms.
C6_Accepted ==
  {p \in 1..Len(BondsTaken) :
     /\ C4_Pair(BondsTaken[p]) # None
     /\ \A q \in 1..(p - 1) : C4_Pair(BondsTaken[q]) # C4_Pair(BondsTaken[p])}

\* C6: the bonds model holds one bond per accepted Bond element and none
\* for a dropped or duplicate one; only accepted bonds intern a bond type;
\* bond IDs are 1..M in acceptance order and bond_id stands at M + 1; and
\* the loop goes on to the end of the Bond elements.
C6_DroppedBondsLeaveNoTrace ==
  pc \in {"bonds", "box", "parsed", "written"} =>
    /\ Len(bonds) = Cardinality(C6_Accepted)
    /\ \A k \in 1..Len(bonds) : bonds[k].id = k
    /\ bond_id = Len(bonds) + 1
    /\ DOMAIN bond_types = {bonds[k].elements : k \in 1..Len(bonds)}
    /\ bond_type_counter = Cardinality(DOMAIN bond_types)
    /\ \A k \in 1..Len(bonds) :
         \E p \in C6_Accepted : C4_Pair(BondsTaken[p])[1] = C4_BondPair(bonds[k])
    /\ pc # "bonds" => bond_pos = Len(bonds_list) + 1

\* A Bond element naming the unknown ID 7 is passed over and the next
\* element is accepted as bond 1.
C6_Witness ==
  /\ pc = "parsed"
  /\ Len(bonds_list) = 2
  /\ bonds_list[1].Connects = Some(S_5c7)
  /\ Len(bonds) = 1 /\ bonds[1].id = 1 /\ bond_id = 2
  /\ bond_type_counter = 1

\* The Bond elements taken that the claim says are skipped with a warning.
C7_Skipped ==
  {p \in 1..Len(BondsTaken) :
     LET connects == BondsTaken[p].Connects
         parts == ParseConnects(Get(connects, S_empty))
     IN  /\ connects # None
         /\ \/ parts = None
            \/ Len(parts[1]) # 2
            \/ ~({parts[1][1], parts[1][2]} \subseteq DOMAIN xsd_id_to_lammps_idx)}
C7_Warnings ==
  {n \in 1..Len(stdout) :
     stdout[n].line \in {"Warning: Could not parse bond",
                         "Warning: Bond references unknown atom IDs"}}

\* C7: every skipped Bond element (an endpoint count other than two, a
\* non-integer endpoint, an ID the map does not hold) has one warning
\* recorded for it, and none is fatal.
C7_EverySkipWarns ==
  pc \in {"bonds", "box", "parsed", "written"} =>
    Cardinality(C7_Warnings) = Cardinality(C7_Skipped)


\* Some Atom3d element the search finds has no ID attribute.
C8_MissingId == \E i \in 1..Len(C1_FoundAtom3d) : C1_FoundAtom3d[i].ID = None
\* The three coordinates of an XYZ value that is three numbers, else None.
C8_Coordinates(xyz) ==
  LET parts == Split(xyz, ",")
  IN  IF Len(parts) = 3 /\ \A i \in 1..3 : FloatOf(parts[i]).ok
        THEN Some(<<FloatOf(parts[1]).v, FloatOf(parts[2]).v, FloatOf(parts[3]).v>>)
        ELSE None

\* C8: parse_xsd aborts exactly when the XML is unparseable or some Atom3d
\* element has no ID attribute; any other malformed or missing value is
\* absorbed (unparseable XYZ -> (0,0,0), missing Charge -> 0.0, missing
\* ForcefieldType -> "unknown", no element -> "X") and the atom is recorded.
C8_AbortsOnlyOnMissingId ==
  /\ pc = "aborted" => (~file.wellformed \/ C8_MissingId)
  /\ ParseDone =>
       /\ file.wellformed /\ ~C8_MissingId
       /\ DOMAIN atoms = 1..Len(C1_FoundAtom3d)
       /\ \A i \in 1..Len(C1_FoundAtom3d) :
            LET e == C1_FoundAtom3d[i]
            IN  /\ (e.XYZ # None /\ C8_Coordinates(e.XYZ[1]) = None)
                     => <<atoms[i].x, atoms[i].y, atoms[i].z>> = <<0, 0, 0>>
                /\ e.Charge = None => atoms[i].charge = 0
                /\ e.ForcefieldType = None => atoms[i].forcefield_type = S_unknown
                /\ (e.Components = None /\ e.kids = <<>>) => atoms[i].element = S_X

\* The element symbol by the stated priority: the text of a Components
\* child (in or out of the namespace) when there is one with text, else
\* the Components attribute, else "X".
C9_Expected(atom_elem) ==
  LET withText == SelectSeq(atom_elem.kids,
                    LAMBDA k : k.tag = "Components" /\ k.text # None /\ k.text # Some(<<>>))
  IN  IF withText # <<>> THEN withText[1].text[1]
      ELSE Get(atom_elem.Components, S_X)

\* C9: the element symbol of every atom is (a) the text of a child
\* Components element when present and non-empty, with or without the
\* namespace, else (b) the Components attribute, else (c) "X".
C9_ElementPriority ==
  pc # "aborted" =>
    \A i \in 1..idx : atoms[i].element = C9_Expected(atoms_list[i])

\* lo is the least of the coordinates less 10, hi the greatest plus 10.
C10_Axis(lo, hi, coords) ==
  /\ lo + 10 \in coords /\ \A c \in coords : lo + 10 <= c
  /\ hi - 10 \in coords /\ \A c \in coords : c <= hi - 10

\* C10: after parse_xsd the bounds of each axis are the smallest coordinate
\* of any atom less 10 and the largest plus 10, so every atom is at least
\* 10 inside the box; with no atoms all six bounds are 0 and the file
\* written is complete with every count 0.
C10_BoxBounds ==
  ParseDone =>
    /\ DOMAIN atoms # {} =>
         /\ C10_Axis(box_bounds.xlo, box_bounds.xhi, {atoms[k].x : k \in DOMAIN atoms})
         /\ C10_Axis(box_bounds.ylo, box_bounds.yhi, {atoms[k].y : k \in DOMAIN atoms})
         /\ C10_Axis(box_bounds.zlo, box_bounds.zhi, {atoms[k].z : k \in DOMAIN atoms})
    /\ DOMAIN atoms = {} =>
         /\ \A b \in DOMAIN box_bounds : box_bounds[b] = 0
         /\ pc = "written" =>
              /\ \A c \in DOMAIN output[1].counts : output[1].counts[c] = 0
              /\ \A t \in DOMAIN output[1].types : output[1].types[t] = 0
              /\ output[1].Masses = <<>> /\ output[1].Atoms = <<>>
              /\ output[1].Bonds = None
    /\ pc = "written" =>
         output[1].box = << <<box_bounds.xlo, box_bounds.xhi>>,
                            <<box_bounds.ylo, box_bounds.yhi>>,
                            <<box_bounds.zlo, box_bounds.zhi>> >>

\* Atoms at (1,2,3), (-4,0,7) and, for "bad,data", (0,0,0): the box is
\* (-14, 11) x (-10, 12) x (-10, 17).
C10_Witness ==
  /\ pc = "written"
  /\ DOMAIN atoms = 1..3
  /\ \E k \in 1..3 : atoms[k].id = S_7 /\ atoms[k].x = 0
  /\ box_bounds = [xlo |-> -14, xhi |-> 11, ylo |-> -10, yhi |-> 12,
                   zlo |-> -10, zhi |-> 17]

====
